---- MODULE Spec2Model ----
(***************************************************************************)
(* A model of orgformat.OrgFormat: the grammar of bracketed Org-mode       *)
(* time-stamps, their parsing, their rendering and the hour arithmetic on  *)
(* their textual form.                                                     *)
(*                                                                         *)
(* A Python str is a sequence of one-character strings.  A                 *)
(* datetime.datetime is a record with the fields year, month, day, hour,   *)
(* minute, second; a time.struct_time is a record with the fields tm_year, *)
(* tm_mon, tm_mday, tm_hour, tm_min, tm_sec, tm_wday, tm_yday, tm_isdst.   *)
(* A call either returns or raises: an outcome is a record                 *)
(* [kind |-> "ok" or the name of the exception class, value |-> the value  *)
(* returned or the exception's argument].                                  *)
(***************************************************************************)
EXTENDS Integers, Sequences, FiniteSets, TLC

VARIABLES op, args, result

vars == <<op, args, result>>

\* ------------------------------------------------------------------ text

DigitChars == <<"0", "1", "2", "3", "4", "5", "6", "7", "8", "9">>

IsDigit(c) == \E k \in 1..10 : DigitChars[k] = c

\* int() of one decimal digit
DigitVal(c) == (CHOOSE k \in 1..10 : DigitChars[k] = c) - 1

\* int() of a str of decimal digits
RECURSIVE IntOf(_)
IntOf(cs) ==
    IF cs = <<>> THEN 0
    ELSE IntOf(SubSeq(cs, 1, Len(cs) - 1)) * 10 + DigitVal(cs[Len(cs)])

\* the decimal digits of n >= 0, zero-padded to at least `width` characters
RECURSIVE ZeroPad(_, _)
ZeroPad(n, width) ==
    IF n < 10 /\ width <= 1 THEN <<DigitChars[n + 1]>>
    ELSE ZeroPad(n \div 10, width - 1) \o <<DigitChars[(n % 10) + 1]>>

\* the character at index i (1-based), "" past either end of the string
At(s, i) == IF i \in 1..Len(s) THEN s[i] ELSE ""

\* s[a-1:b] of Python: the characters at the indices a..b that exist
Slice(s, a, b) ==
    IF a > Len(s) \/ b < a THEN <<>>
    ELSE SubSeq(s, a, IF b < Len(s) THEN b ELSE Len(s))

\* --------------------------------------------------------------- grammar

\* the alternation of weekday tokens of SINGLE_ORGMODE_TIMESTAMP
WeekdayTokens ==
    { <<"M","o","n">>, <<"T","u","e">>, <<"W","e","d">>, <<"T","h","u">>,
      <<"F","r","i">>, <<"S","a","t">>, <<"S","u","n">>,
      <<"M","o">>, <<"D","i">>, <<"M","i">>, <<"D","o">>, <<"F","r">>,
      <<"S","a">>, <<"S","o">>,
      <<"D","i","e">>, <<"M","i","t">>, <<"D","o","n">>, <<"F","r","e">>,
      <<"S","a","m">>, <<"S","o","n">> }

\* the length of the weekday token that lets SINGLE_ORGMODE_TIMESTAMP go on
\* at index i: the token must be followed by a space; 0 when there is none
WeekdayLen(s, i) ==
    IF Slice(s, i, i + 2) \in WeekdayTokens /\ At(s, i + 3) = " " THEN 3
    ELSE IF Slice(s, i, i + 1) \in WeekdayTokens /\ At(s, i + 2) = " " THEN 2
    ELSE 0

\* SINGLE_ORGMODE_TIMESTAMP matched at index i of s: the number of characters
\* it consumes (21 or 22), 0 when it does not match there
SingleLen(s, i) ==
    LET w == WeekdayLen(s, i + 12)
        j == i + 13 + w
    IN  IF /\ At(s, i) \in {"<", "["}
           /\ At(s, i + 1) \in {"1", "2"}
           /\ IsDigit(At(s, i + 2)) /\ IsDigit(At(s, i + 3)) /\ IsDigit(At(s, i + 4))
           /\ At(s, i + 5) = "-"
           /\ At(s, i + 6) \in {"0", "1", "2", "3", "4", "5"} /\ IsDigit(At(s, i + 7))
           /\ At(s, i + 8) = "-"
           /\ At(s, i + 9) \in {"0", "1", "2", "3", "4", "5"} /\ IsDigit(At(s, i + 10))
           /\ At(s, i + 11) = " "
           /\ w > 0
           /\ \/ At(s, j) \in {"0", "1"} /\ IsDigit(At(s, j + 1))
              \/ At(s, j) = "2" /\ At(s, j + 1) \in {"0", "1", "2", "3"}
           /\ At(s, j + 2) = ":"
           /\ At(s, j + 3) \in {"0", "1", "2", "3", "4", "5"} /\ IsDigit(At(s, j + 4))
           /\ At(s, j + 5) \in {">", "]"}
        THEN 19 + w
        ELSE 0

\* the regular expression's `$` at index p (the index after the last consumed
\* character): the end of the string, or the line break that ends the string
AtEnd(s, p) == p = Len(s) + 1 \/ (p = Len(s) /\ s[p] = "\n")

\* re.match(ORGMODE_TIMESTAMP_REGEX, s) is not None
ORGMODE_TIMESTAMP_REGEX(s) ==
    SingleLen(s, 1) > 0 /\ AtEnd(s, 1 + SingleLen(s, 1))

\* the groups of re.match(ORGMODE_TIMESTAMP_REGEX, s), by group number
SingleGroup(s, n) ==
    LET w == WeekdayLen(s, 13)
    IN  CASE n = 1 -> SubSeq(s, 1, 19 + w)
          [] n = 2 -> SubSeq(s, 2, 5)
          [] n = 3 -> SubSeq(s, 7, 8)
          [] n = 4 -> SubSeq(s, 10, 11)
          [] n = 5 -> SubSeq(s, 13, 12 + w)
          [] n = 6 -> SubSeq(s, 14 + w, 15 + w)
          [] n = 9 -> SubSeq(s, 17 + w, 18 + w)

\* the number of dashes "-(-)?" consumes after the first time-stamp of a range
RangeDashes(s, l1) ==
    IF At(s, 1 + l1) # "-" THEN 0
    ELSE IF At(s, 2 + l1) = "-" THEN 2 ELSE 1

\* re.match(ORGMODE_TIMESTAMP_RANGE_REGEX, s) is not None
ORGMODE_TIMESTAMP_RANGE_REGEX(s) ==
    LET l1 == SingleLen(s, 1)
        k  == RangeDashes(s, l1)
        l2 == SingleLen(s, 1 + l1 + k)
    IN  l1 > 0 /\ k > 0 /\ l2 > 0 /\ AtEnd(s, 1 + l1 + k + l2)

\* range_components.groups(0)[0] and range_components.groups(0)[10]: the two
\* time-stamps of a matched range
RangeBegin(s) == SubSeq(s, 1, SingleLen(s, 1))

\* the first group taken for the end as well
RangeEnd_first(s) == SubSeq(s, 1, SingleLen(s, 1))

RangeEnd(s) ==
    LET l1 == SingleLen(s, 1)
        k  == RangeDashes(s, l1)
    IN  SubSeq(s, 1 + l1 + k, l1 + k + SingleLen(s, 1 + l1 + k))

\* -------------------------------------------------------------- calendar

\* datetime's _is_leap
IsLeap(year) == year % 4 = 0 /\ (year % 100 # 0 \/ year % 400 = 0)

\* datetime's _days_in_month
DaysInMonth(year, month) ==
    IF month = 2 /\ IsLeap(year) THEN 29
    ELSE <<31, 28, 31, 30, 31, 30, 31, 31, 30, 31, 30, 31>>[month]

\* datetime's _days_before_year: the days before January 1st of year
DaysBeforeYear(year) ==
    LET y == year - 1
    IN  y * 365 + (y \div 4) - (y \div 100) + (y \div 400)

\* datetime's _days_before_month: the days of the year before the 1st of month
DaysBeforeMonth(year, month) ==
    <<0, 31, 59, 90, 120, 151, 181, 212, 243, 273, 304, 334>>[month]
        + (IF month > 2 /\ IsLeap(year) THEN 1 ELSE 0)

\* datetime.toordinal(): 0001-01-01 is day 1
ToOrdinal(year, month, day) ==
    DaysBeforeYear(year) + DaysBeforeMonth(year, month) + day

\* datetime.fromordinal(n): the date whose ordinal is n
FromOrdinal(n) ==
    LET y == CHOOSE yy \in (n \div 366)..((n \div 365) + 1) :
                 DaysBeforeYear(yy) < n /\ n <= DaysBeforeYear(yy + 1)
        m == CHOOSE mm \in 1..12 :
                 /\ DaysBeforeMonth(y, mm) < n - DaysBeforeYear(y)
                 /\ n - DaysBeforeYear(y) <= DaysBeforeMonth(y, mm) + DaysInMonth(y, mm)
    IN  [year |-> y, month |-> m,
         day |-> n - DaysBeforeYear(y) - DaysBeforeMonth(y, m)]

\* datetime.weekday(): Monday is 0
Weekday(year, month, day) == (ToOrdinal(year, month, day) + 6) % 7

Ok(v) == [kind |-> "ok", value |-> v]

Raise(class, v) == [kind |-> class, value |-> v]

\* datetime.datetime(year, month, day, hour, minute, second): the constructor
\* raises ValueError on a component out of range
DatetimeNew(year, month, day, hour, minute, second) ==
    IF /\ year \in 1..9999
       /\ month \in 1..12
       /\ day >= 1 /\ day <= DaysInMonth(year, month)
       /\ hour \in 0..23 /\ minute \in 0..59 /\ second \in 0..59
    THEN Ok([year |-> year, month |-> month, day |-> day,
             hour |-> hour, minute |-> minute, second |-> second])
    ELSE Raise("ValueError", <<>>)

\* the delta handed over one place early, as minutes
Timedelta_minutes(deltahours) == (deltahours[1] * 60) \div deltahours[2]

\* datetime.timedelta(0, 0, 0, 0, 0, deltahours), in whole seconds.  deltahours
\* is the fraction <<numerator, denominator>> of hours (<<5, 2>> is the float
\* 2.5, <<3, 1>> the int 3) with a denominator that divides 3600.
Timedelta(deltahours) == (deltahours[1] * 3600) \div deltahours[2]

\* datetime.__add__(timedelta): the days and the seconds of the day are added
\* and normalised; OverflowError outside the years 1..9999
DatetimeAdd(dt, seconds) ==
    LET total == dt.hour * 3600 + dt.minute * 60 + dt.second + seconds
        days  == ToOrdinal(dt.year, dt.month, dt.day) + (total \div 86400)
        rem   == total % 86400
        d     == FromOrdinal(days)
    IN  IF days > 0 /\ days <= 3652059
        THEN Ok([year |-> d.year, month |-> d.month, day |-> d.day,
                 hour |-> rem \div 3600, minute |-> (rem % 3600) \div 60,
                 second |-> rem % 60])
        ELSE Raise("OverflowError", <<>>)

\* --------------------------------------------------------------- parsing

\* the text of the TimestampParseException before the offending string
ParseMessagePrefix ==
    << "s", "t", "r", "i", "n", "g", " ", "c", "o", "u", "l", "d",
       " ", "n", "o", "t", " ", "b", "e", " ", "p", "a", "r", "s",
       "e", "d", " ", "a", "s", " ", "t", "i", "m", "e", "-", "s",
       "t", "a", "m", "p", " ", "o", "f", " ", "f", "o", "r", "m",
       "a", "t", " ", "\"", "<", "Y", "Y", "Y", "Y", "-", "M", "M",
       "-", "D", "D", " ", "S", "u", "n", " ", "H", "H", ":", "M",
       "M", ">", "\"", " ", "(", "i", "n", "c", "l", "u", "d", "i",
       "n", "g", " ", "i", "n", "a", "c", "t", "i", "v", "e", " ",
       "o", "n", "e", "s", ")", ":", " ", "\"" >>

\* the groups of the month and of the day taken for each other
orgmode_timestamp_to_datetime_swapped(orgtime) ==
    IF ~ORGMODE_TIMESTAMP_REGEX(orgtime)
    THEN Raise("TimestampParseException",
               ParseMessagePrefix \o orgtime \o <<"\"">>)
    ELSE DatetimeNew(IntOf(SingleGroup(orgtime, 2)),
                     IntOf(SingleGroup(orgtime, 4)),
                     IntOf(SingleGroup(orgtime, 3)),
                     IntOf(SingleGroup(orgtime, 6)),
                     IntOf(SingleGroup(orgtime, 9)),
                     0)

\* OrgFormat.orgmode_timestamp_to_datetime(orgtime)
orgmode_timestamp_to_datetime(orgtime) ==
    IF ~ORGMODE_TIMESTAMP_REGEX(orgtime)
    THEN Raise("TimestampParseException",
               ParseMessagePrefix \o orgtime \o <<"\"">>)
    ELSE DatetimeNew(IntOf(SingleGroup(orgtime, 2)),
                     IntOf(SingleGroup(orgtime, 3)),
                     IntOf(SingleGroup(orgtime, 4)),
                     IntOf(SingleGroup(orgtime, 6)),
                     IntOf(SingleGroup(orgtime, 9)),
                     0)

\* ------------------------------------------------------------ conversion

IsStructTime(v) == "tm_year" \in DOMAIN v

\* OrgFormat.struct_time_to_datetime(tuple_date): the six calendar fields are
\* handed to the datetime constructor, the other three are dropped
struct_time_to_datetime(tuple_date) ==
    DatetimeNew(tuple_date.tm_year, tuple_date.tm_mon, tuple_date.tm_mday,
                tuple_date.tm_hour, tuple_date.tm_min, tuple_date.tm_sec)

\* OrgFormat.datetime_to_struct_time(tuple_date): datetime.timetuple()
datetime_to_struct_time(tuple_date) ==
    [tm_year |-> tuple_date.year, tm_mon |-> tuple_date.month,
     tm_mday |-> tuple_date.day, tm_hour |-> tuple_date.hour,
     tm_min |-> tuple_date.minute, tm_sec |-> tuple_date.second,
     tm_wday |-> Weekday(tuple_date.year, tuple_date.month, tuple_date.day),
     tm_yday |-> DaysBeforeMonth(tuple_date.year, tuple_date.month) + tuple_date.day,
     tm_isdst |-> -1]

\* the tuple rebuilt with the weekday it came with
fix_struct_time_wday_kept(tuple_date) ==
    LET datetimestamp == struct_time_to_datetime(tuple_date)
    IN  IF datetimestamp.kind # "ok" THEN datetimestamp
        ELSE Ok([tuple_date EXCEPT !.tm_yday = 0, !.tm_isdst = 0])

\* OrgFormat.fix_struct_time_wday(tuple_date)
fix_struct_time_wday(tuple_date) ==
    LET datetimestamp == struct_time_to_datetime(tuple_date)
    IN  IF datetimestamp.kind # "ok" THEN datetimestamp
        ELSE Ok([tm_year |-> datetimestamp.value.year,
                 tm_mon |-> datetimestamp.value.month,
                 tm_mday |-> datetimestamp.value.day,
                 tm_hour |-> datetimestamp.value.hour,
                 tm_min |-> datetimestamp.value.minute,
                 tm_sec |-> datetimestamp.value.second,
                 tm_wday |-> Weekday(datetimestamp.value.year,
                                     datetimestamp.value.month,
                                     datetimestamp.value.day),
                 tm_yday |-> 0,
                 tm_isdst |-> 0])

\* ------------------------------------------------------------ formatting

\* %a of time.strftime in the C locale, by tm_wday
WeekdayAbbr ==
    << <<"M","o","n">>, <<"T","u","e">>, <<"W","e","d">>, <<"T","h","u">>,
       <<"F","r","i">>, <<"S","a","t">>, <<"S","u","n">> >>

\* one directive or literal character of a strftime format; the C library's
\* %Y writes the year without padding, so a year before 1000 has three digits
Directive(d, t) ==
    CASE d = "%Y" -> ZeroPad(t.tm_year, 1)
      [] d = "%m" -> ZeroPad(t.tm_mon, 2)
      [] d = "%d" -> ZeroPad(t.tm_mday, 2)
      [] d = "%a" -> WeekdayAbbr[t.tm_wday + 1]
      [] d = "%H" -> ZeroPad(t.tm_hour, 2)
      [] d = "%M" -> ZeroPad(t.tm_min, 2)
      [] OTHER    -> <<d>>

\* time.strftime(format, t): format is the sequence of its directives and
\* literal characters; every field is read from t, tm_wday included
RECURSIVE Strftime(_, _)
Strftime(format, t) ==
    IF format = <<>> THEN <<>>
    ELSE Directive(Head(format), t) \o Strftime(Tail(format), t)

\* "%Y-%m-%d %a" and "%Y-%m-%d %a %H:%M"
FormatDate == <<"%Y", "-", "%m", "-", "%d", " ", "%a">>

FormatDateTime == FormatDate \o <<" ", "%H", ":", "%M">>

\* OrgFormat.date(tuple_date, show_time, inactive)
date(tuple_date, show_time, inactive) ==
    LET local_structtime ==
            IF IsStructTime(tuple_date) THEN fix_struct_time_wday(tuple_date)
            ELSE Ok(datetime_to_struct_time(tuple_date))
    IN  IF local_structtime.kind # "ok" THEN local_structtime
        ELSE IF show_time
        THEN IF inactive
             THEN Ok(Strftime(<<"[">> \o FormatDateTime \o <<"]">>, local_structtime.value))
             ELSE Ok(Strftime(<<"<">> \o FormatDateTime \o <<">">>, local_structtime.value))
        ELSE IF inactive
             THEN Ok(Strftime(<<"[">> \o FormatDate \o <<"]">>, local_structtime.value))
             ELSE Ok(Strftime(<<"<">> \o FormatDate \o <<">">>, local_structtime.value))

\* OrgFormat.inactive_date(tuple_date, show_time)
inactive_date(tuple_date, show_time) ==
    LET local_structtime ==
            IF IsStructTime(tuple_date) THEN fix_struct_time_wday(tuple_date)
            ELSE Ok(datetime_to_struct_time(tuple_date))
        fixed == IF local_structtime.kind # "ok" THEN local_structtime
                 ELSE fix_struct_time_wday(local_structtime.value)
    IN  IF fixed.kind # "ok" THEN fixed
        ELSE IF show_time
        THEN Ok(Strftime(<<"[">> \o FormatDateTime \o <<"]">>, fixed.value))
        ELSE Ok(Strftime(<<"[">> \o FormatDate \o <<"]">>, fixed.value))

\* the wrapper without show_time
datetime_date_only(tuple_datetime, inactive) == date(tuple_datetime, FALSE, FALSE)

\* OrgFormat.datetime(tuple_datetime, inactive): the inactive argument is not
\* handed on
datetime(tuple_datetime, inactive) == date(tuple_datetime, TRUE, FALSE)

\* OrgFormat.inactive_datetime(tuple_datetime)
inactive_datetime(tuple_datetime) == inactive_date(tuple_datetime, TRUE)

\* "%s--%s" % (b, e) over two outcomes: the first exception raised wins
JoinRange(b, e) ==
    IF b.kind # "ok" THEN b
    ELSE IF e.kind # "ok" THEN e
    ELSE Ok(b.value \o <<"-", "-">> \o e.value)

\* the body of datetimerange under the name of daterange
daterange_with_time(begin, end) ==
    JoinRange(date(begin, TRUE, FALSE), date(end, TRUE, FALSE))

\* OrgFormat.daterange(begin, end)
daterange(begin, end) == JoinRange(date(begin, FALSE, FALSE), date(end, FALSE, FALSE))

\* the endpoints with their time, in square brackets
datetimerange_inactive(begin, end) ==
    JoinRange(date(begin, TRUE, TRUE), date(end, TRUE, TRUE))

\* OrgFormat.datetimerange(begin, end)
datetimerange(begin, end) == JoinRange(date(begin, TRUE, FALSE), date(end, TRUE, FALSE))

\* only the begin is looked at
utcrange_begin_only(begin_tupel, end_tupel) ==
    IF begin_tupel.tm_sec = 0 /\ begin_tupel.tm_min = 0 /\ begin_tupel.tm_hour = 0
    THEN daterange(begin_tupel, end_tupel)
    ELSE datetimerange(begin_tupel, end_tupel)

\* dates alone as soon as one endpoint is at midnight
utcrange_either_midnight(begin_tupel, end_tupel) ==
    IF \/ begin_tupel.tm_sec = 0 /\ begin_tupel.tm_min = 0 /\ begin_tupel.tm_hour = 0
       \/ end_tupel.tm_sec = 0 /\ end_tupel.tm_min = 0 /\ end_tupel.tm_hour = 0
    THEN daterange(begin_tupel, end_tupel)
    ELSE datetimerange(begin_tupel, end_tupel)

\* OrgFormat.utcrange(begin_tupel, end_tupel)
utcrange(begin_tupel, end_tupel) ==
    IF /\ begin_tupel.tm_sec = 0 /\ begin_tupel.tm_min = 0 /\ begin_tupel.tm_hour = 0
       /\ end_tupel.tm_sec = 0 /\ end_tupel.tm_min = 0 /\ end_tupel.tm_hour = 0
    THEN daterange(begin_tupel, end_tupel)
    ELSE datetimerange(begin_tupel, end_tupel)

\* The range formatter with options, daterange(begin, end, show_time, inactive)
\* of the tests: both endpoints are formatted with the same options and joined
\* with "--".
formatRange(begin, end, show_time, inactive) ==
    JoinRange(date(begin, show_time, inactive), date(end, show_time, inactive))

\* whether a wall-clock tuple has a time of day other than midnight
HasTime(t) == t.tm_hour # 0 \/ t.tm_min # 0 \/ t.tm_sec # 0

\* daterange_autodetect_time(begin_tuple, end_tuple, inactive) of the tests:
\* the time is shown on both endpoints if either has one
formatRangeAutoTime(begin, end, inactive) ==
    formatRange(begin, end, HasTime(begin) \/ HasTime(end), inactive)

\* ------------------------------------------------------------ arithmetic

\* the delta is added whatever its sign
ShiftStamp_absolute(stamp, deltahours) ==
    LET parsed == orgmode_timestamp_to_datetime(stamp)
        seconds == Timedelta(deltahours)
        sum    == DatetimeAdd(parsed.value, IF seconds < 0 THEN -seconds ELSE seconds)
    IN  IF parsed.kind # "ok" THEN parsed
        ELSE IF sum.kind # "ok" THEN sum
        ELSE datetime(sum.value, FALSE)

\* OrgFormat.datetime(OrgFormat.orgmode_timestamp_to_datetime(stamp)
\*                    + datetime.timedelta(0, 0, 0, 0, 0, deltahours))
ShiftStamp(stamp, deltahours) ==
    LET parsed == orgmode_timestamp_to_datetime(stamp)
        sum    == DatetimeAdd(parsed.value, Timedelta(deltahours))
    IN  IF parsed.kind # "ok" THEN parsed
        ELSE IF sum.kind # "ok" THEN sum
        ELSE datetime(sum.value, FALSE)

\* OrgFormat.apply_timedelta_to_Orgmode_timestamp(orgtime, deltahours)
apply_timedelta_to_Orgmode_timestamp(orgtime, deltahours) ==
    IF ORGMODE_TIMESTAMP_RANGE_REGEX(orgtime)
    THEN JoinRange(ShiftStamp(RangeBegin(orgtime), deltahours),
                   ShiftStamp(RangeEnd(orgtime), deltahours))
    ELSE ShiftStamp(orgtime, deltahours)

\* ---------------------------------------------------- external encodings

DigitSet == { DigitChars[k] : k \in 1..10 }

\* the pattern _strptime's TimeRE has for a directive: its alternatives in the
\* order the pattern tries them, each a sequence of character classes
DirectiveRE(d) ==
    CASE d = "%Y" -> << <<DigitSet, DigitSet, DigitSet, DigitSet>> >>
      [] d = "%m" -> << <<{"1"}, {"0", "1", "2"}>>,
                        <<{"0"}, DigitSet \ {"0"}>>,
                        <<DigitSet \ {"0"}>> >>
      [] d = "%d" -> << <<{"3"}, {"0", "1"}>>,
                        <<{"1", "2"}, DigitSet>>,
                        <<{"0"}, DigitSet \ {"0"}>>,
                        <<DigitSet \ {"0"}>>,
                        <<{" "}, DigitSet \ {"0"}>> >>
      [] d = "%H" -> << <<{"2"}, {"0", "1", "2", "3"}>>,
                        <<{"0", "1"}, DigitSet>>,
                        <<DigitSet>> >>
      [] d = "%M" -> << <<{"0", "1", "2", "3", "4", "5"}, DigitSet>>,
                        <<DigitSet>> >>
      [] d = "%S" -> << <<{"6"}, {"0", "1"}>>,
                        <<{"0", "1", "2", "3", "4", "5"}, DigitSet>>,
                        <<DigitSet>> >>

IsDirective(tok) == tok \in {"%Y", "%m", "%d", "%H", "%M", "%S"}

\* the pattern is compiled with re.IGNORECASE: the letters of the formats
Folded(c) == IF c = "t" THEN "T" ELSE IF c = "z" THEN "Z" ELSE c

\* whether the classes of one alternative match s from position p on
ClassesMatch(classes, s, p) ==
    \A i \in 1..Len(classes) : At(s, p + i - 1) \in classes[i]

\* format_regex.match(data_string): the groups of the first match in the
\* pattern's order of trial and pos, the position after it; pos 0 when there
\* is no match.  format[k] is matched from position p of s on.
RECURSIVE REMatch(_, _, _, _, _)
RECURSIVE REAlternative(_, _, _, _, _, _)
REMatch(format, k, s, p, found) ==
    IF k > Len(format) THEN [found EXCEPT !.pos = p]
    ELSE IF IsDirective(format[k]) THEN REAlternative(format, k, s, p, found, 1)
    ELSE IF p <= Len(s) /\ Folded(s[p]) = Folded(format[k])
         THEN REMatch(format, k + 1, s, p + 1, found)
         ELSE [found EXCEPT !.pos = 0]

REAlternative(format, k, s, p, found, i) ==
    LET alternatives == DirectiveRE(format[k])
    IN  IF i > Len(alternatives) THEN [found EXCEPT !.pos = 0]
        ELSE LET classes == alternatives[i]
                 group   == IntOf(SelectSeq(Slice(s, p, p + Len(classes) - 1), IsDigit))
                 rest    == REMatch(format, k + 1, s, p + Len(classes),
                                    [found EXCEPT ![format[k]] = group])
             IN  IF ClassesMatch(classes, s, p) /\ rest.pos # 0 THEN rest
                 ELSE REAlternative(format, k, s, p, found, i + 1)

\* time.strptime(data_string, format): a time.struct_time, or ValueError when
\* the pattern does not match, when it leaves characters over, or when the
\* date library has no such day; tm_wday and tm_yday are computed, tm_isdst is
\* -1.  format is the sequence of its directives and literal characters.
Strptime(data_string, format) ==
    LET found == REMatch(format, 1, data_string, 1,
                         ("pos" :> 0) @@ ("%Y" :> 1900) @@ ("%m" :> 1) @@ ("%d" :> 1)
                            @@ ("%H" :> 0) @@ ("%M" :> 0) @@ ("%S" :> 0))
        year  == found["%Y"]
        month == found["%m"]
        day   == found["%d"]
    IN  IF found["pos"] = 0 THEN Raise("ValueError", <<>>)
        ELSE IF found["pos"] # Len(data_string) + 1 THEN Raise("ValueError", <<>>)
        ELSE IF year < 1 \/ day > DaysInMonth(year, month) THEN Raise("ValueError", <<>>)
        ELSE Ok([tm_year |-> year, tm_mon |-> month, tm_mday |-> day,
                 tm_hour |-> found["%H"], tm_min |-> found["%M"],
                 tm_sec |-> found["%S"],
                 tm_wday |-> Weekday(year, month, day),
                 tm_yday |-> DaysBeforeMonth(year, month) + day,
                 tm_isdst |-> -1])

\* the days from 1970-01-01 to the day of t, and the seconds of that day: the
\* two parts of the integer calendar.timegm(t) returns,
\* days * 86400 + seconds
Timegm(t) ==
    << ToOrdinal(t.tm_year, t.tm_mon, 1) - ToOrdinal(1970, 1, 1) + t.tm_mday - 1,
       t.tm_hour * 3600 + t.tm_min * 60 + t.tm_sec >>

\* the wall clock of the instant at Greenwich, whatever the ambient zone
Gmtime(secs, tz) ==
    LET d == FromOrdinal(secs[1] + ToOrdinal(1970, 1, 1) + (secs[2] \div 86400))
        rem == secs[2] % 86400
    IN  [tm_year |-> d.year, tm_mon |-> d.month, tm_mday |-> d.day,
         tm_hour |-> rem \div 3600, tm_min |-> (rem % 3600) \div 60,
         tm_sec |-> rem % 60,
         tm_wday |-> Weekday(d.year, d.month, d.day),
         tm_yday |-> DaysBeforeMonth(d.year, d.month) + d.day,
         tm_isdst |-> 0]

\* time.localtime(secs) under the ambient zone tz, a zone of one offset from
\* UTC the year round (TZ=CET-1 is 3600 seconds east): the wall clock of the
\* instant in that zone, tm_wday and tm_yday computed, tm_isdst 0
Localtime(secs, tz) ==
    LET total == secs[2] + tz.utcoff
        d     == FromOrdinal(secs[1] + ToOrdinal(1970, 1, 1) + (total \div 86400))
        rem   == total % 86400
    IN  [tm_year |-> d.year, tm_mon |-> d.month, tm_mday |-> d.day,
         tm_hour |-> rem \div 3600, tm_min |-> (rem % 3600) \div 60,
         tm_sec |-> rem % 60,
         tm_wday |-> Weekday(d.year, d.month, d.day),
         tm_yday |-> DaysBeforeMonth(d.year, d.month) + d.day,
         tm_isdst |-> 0]

\* "except ValueError as e: raise TimestampParseException(e)"
WrapValueError(outcome) ==
    IF outcome.kind = "ValueError" THEN Raise("TimestampParseException", outcome)
    ELSE outcome

\* "assert(False)" after the try: AssertionError, and under python -O, which
\* strips assert statements, the end of the function, which returns None
AssertFalse(optimize) ==
    IF optimize THEN Ok("None") ELSE Raise("AssertionError", <<>>)

\* datetime_string.split(".")[0]
BeforeDot(s) ==
    IF \E i \in 1..Len(s) : s[i] = "."
    THEN SubSeq(s, 1, (CHOOSE i \in 1..Len(s) :
                          s[i] = "." /\ \A j \in 1..(i - 1) : s[j] # ".") - 1)
    ELSE s

\* OrgFormat.datetupelutctimestamp(datetime_string), under the ambient zone tz
\* and with or without python -O
datetupelutctimestamp(datetime_string, tz, optimize) ==
    LET string_length == Len(datetime_string)
        utc == IF string_length = 16
               THEN Strptime(datetime_string,
                             <<"%Y", "%m", "%d", "T", "%H", "%M", "%S", "Z">>)
               ELSE Strptime(BeforeDot(datetime_string) \o <<"Z">>,
                             <<"%Y", "-", "%m", "-", "%d", "T",
                               "%H", ":", "%M", ":", "%S", "Z">>)
    IN  IF string_length = 16 \/ string_length = 27
        THEN IF utc.kind = "ok" THEN Ok(Localtime(Timegm(utc.value), tz))
             ELSE WrapValueError(utc)
        ELSE IF string_length = 15
        THEN WrapValueError(Strptime(datetime_string,
                                     <<"%Y", "%m", "%d", "T", "%H", "%M", "%S">>))
        ELSE IF string_length = 8
        THEN WrapValueError(Strptime(datetime_string, <<"%Y", "%m", "%d">>))
        ELSE AssertFalse(optimize)

\* OrgFormat.datetimetupeliso8601(datetime_string), with or without python -O
datetimetupeliso8601(datetime_string, optimize) ==
    IF Len(datetime_string) = 16
    THEN WrapValueError(Strptime(datetime_string,
                                 <<"%Y", "-", "%m", "-", "%d", "T", "%H", ".", "%M">>))
    ELSE IF Len(datetime_string) = 19
    THEN WrapValueError(Strptime(datetime_string,
                                 <<"%Y", "-", "%m", "-", "%d", "T",
                                   "%H", ".", "%M", ".", "%S">>))
    ELSE AssertFalse(optimize)

\* ---------------------------------------------------------------- inputs

\* whole hours from -MaxDeltaHours to MaxDeltaHours are tried
MaxDeltaHours == 3

\* up to MaxJunk characters are put before or after a time-stamp
MaxJunk == 1

\* calendar dates <<year, month, day>> around the ends of months and years,
\* in leap years and in common years
Dates ==
    { <<2019, 11, 5>>, <<2019, 12, 31>>, <<2020, 1, 1>>, <<2020, 2, 28>>,
      <<2020, 2, 29>>, <<2020, 3, 1>>, <<2019, 2, 28>>, <<2019, 3, 1>>,
      <<1900, 2, 28>>, <<1900, 3, 1>>, <<2000, 2, 29>>, <<2013, 4, 3>>,
      <<1000, 1, 1>>, <<2999, 12, 31>> }

\* dates of two digits per field that no calendar has
BadDates ==
    { <<2019, 13, 5>>, <<2019, 0, 5>>, <<2019, 59, 5>>, <<2019, 11, 0>>,
      <<2019, 11, 32>>, <<2019, 2, 29>>, <<2020, 2, 30>>, <<2019, 4, 31>> }

\* times of day <<hour, minute>>
Times == { <<0, 0>>, <<0, 59>>, <<1, 30>>, <<12, 0>>, <<23, 0>>, <<23, 59>> }

\* weekday tokens written into an input, whatever its date
Tokens == { <<"T","u","e">>, <<"D","i">>, <<"S","o","n">> }

\* signed hours: ints, and floats as fractions (<<5, 2>> is 2.5, <<1, 120>> is
\* half a minute)
Deltas ==
    { <<n, 1>> : n \in (0 - MaxDeltaHours)..MaxDeltaHours }
        \cup { <<5, 2>>, <<-5, 2>>, <<1, 120>>, <<-1, 120>>, <<-49, 2>>, <<49, 2>> }

\* the text of a time-stamp with the given brackets, fields and weekday token
Stamp(open, d, token, hm, close) ==
    <<open>> \o ZeroPad(d[1], 4) \o <<"-">> \o ZeroPad(d[2], 2) \o <<"-">>
        \o ZeroPad(d[3], 2) \o <<" ">> \o token \o <<" ">>
        \o ZeroPad(hm[1], 2) \o <<":">> \o ZeroPad(hm[2], 2) \o <<close>>

\* the same without a weekday token
StampNoWeekday(open, d, hm, close) ==
    <<open>> \o ZeroPad(d[1], 4) \o <<"-">> \o ZeroPad(d[2], 2) \o <<"-">>
        \o ZeroPad(d[3], 2) \o <<" ">>
        \o ZeroPad(hm[1], 2) \o <<":">> \o ZeroPad(hm[2], 2) \o <<close>>

\* time-stamps of the grammar with dates of the calendar, brackets of every
\* pairing
GoodStamps ==
    { Stamp(o, d, w, hm, c) :
        o \in {"<", "["}, d \in Dates, w \in Tokens, hm \in Times, c \in {">", "]"} }

\* time-stamps of the grammar with dates of no calendar
BadDateStamps ==
    { Stamp(b[1], d, <<"T","u","e">>, <<23, 59>>, b[2]) :
        b \in {<<"<", ">">>, <<"[", "]">>}, d \in BadDates }

\* strings outside the grammar: free text, no weekday token, an unknown token,
\* hour 24, minute 60, a year that starts with 3, an empty string
Malformed ==
    { <<"f","o","o","b","a","r">>, <<>>,
      StampNoWeekday("<", <<1980, 12, 31>>, <<23, 59>>, ">"),
      Stamp("<", <<1980, 12, 31>>, <<"W","e","n">>, <<23, 59>>, ">"),
      Stamp("<", <<2019, 11, 5>>, <<"T","u","e">>, <<24, 0>>, ">"),
      Stamp("<", <<2019, 11, 5>>, <<"T","u","e">>, <<23, 60>>, ">"),
      Stamp("<", <<3019, 11, 5>>, <<"T","u","e">>, <<23, 59>>, ">"),
      Stamp("(", <<2019, 11, 5>>, <<"T","u","e">>, <<23, 59>>, ")") }

\* what is put before or after a time-stamp
JunkStrings == UNION { [1..n -> {"x", " ", "\n", ">"}] : n \in 1..MaxJunk }

\* a few time-stamps with something before or after them
Seeds ==
    { Stamp(b[1], <<2019, 11, 5>>, <<"T","u","e">>, <<23, 59>>, b[2]) :
        b \in {<<"<", ">">>, <<"[", "]">>} }

Padded ==
    { j \o s : j \in JunkStrings, s \in Seeds } \cup { s \o j : j \in JunkStrings, s \in Seeds }

\* the endpoints of the ranges tried
RangeStamps ==
    { Stamp(b[1], d, <<"T","u","e">>, hm, b[2]) :
        b \in {<<"<", ">">>, <<"[", "]">>},
        d \in {<<2019, 12, 31>>, <<2020, 2, 29>>},
        hm \in {<<1, 30>>, <<23, 30>>} }

\* two time-stamps joined by one or two dashes; the same joined by nothing or
\* by three dashes, or with an endpoint of no calendar; and ranges with
\* something before or after them
Ranges ==
    { b \o dashes \o e :
        b \in RangeStamps, e \in RangeStamps, dashes \in {<<"-">>, <<"-", "-">>} }
    \cup
    { b \o dashes \o e :
        b \in Seeds \cup {Stamp("<", <<2019, 13, 5>>, <<"T","u","e">>, <<23, 59>>, ">")},
        e \in Seeds \cup {Stamp("<", <<2019, 2, 29>>, <<"T","u","e">>, <<23, 59>>, ">")},
        dashes \in {<<>>, <<"-">>, <<"-", "-">>, <<"-", "-", "-">>} }
    \cup
    { j \o s \o <<"-", "-">> \o s : j \in JunkStrings, s \in Seeds }
    \cup
    { s \o <<"-", "-">> \o s \o j : j \in JunkStrings, s \in Seeds }

\* the time-stamps and ranges of the tests and of the docstrings
TestStrings ==
    { Stamp(b[1], <<1980, 12, 31>>, <<"W","e","d">>, <<23, 59>>, b[2]) :
        b \in {<<"<", ">">>, <<"[", "]">>} }
    \cup { Stamp("<", <<2019, 11, 5>>, <<"T","u","e">>, <<23, 59>>, ">"),
           Stamp("<", <<2019, 11, 6>>, <<"W","e","d">>, <<0, 59>>, ">"),
           Stamp("<", <<2019, 12, 31>>, <<"T","u","e">>, <<23, 0>>, ">"),
           Stamp("<", <<2020, 1, 1>>, <<"W","e","d">>, <<1, 30>>, ">"),
           Stamp("<", <<2019, 12, 31>>, <<"T","u","e">>, <<23, 0>>, ">") \o <<"-">>
               \o Stamp("<", <<2019, 12, 31>>, <<"T","u","e">>, <<23, 30>>, ">"),
           Stamp("<", <<2020, 1, 1>>, <<"W","e","d">>, <<1, 30>>, ">") \o <<"-", "-">>
               \o Stamp("<", <<2020, 1, 1>>, <<"W","e","d">>, <<2, 0>>, ">") }

\* every str handed to the parsing operations
Strings ==
    GoodStamps \cup BadDateStamps \cup Malformed \cup Padded \cup Ranges \cup TestStrings

\* seconds of the minute given to the calendar values
Seconds == {0, 42}

\* datetime.datetime objects
Datetimes ==
    { [year |-> d[1], month |-> d[2], day |-> d[3],
       hour |-> hm[1], minute |-> hm[2], second |-> s] :
        d \in Dates, hm \in Times, s \in Seconds }

\* time.struct_time objects as time.strptime makes them, and the same with
\* tm_wday, tm_yday and tm_isdst set to a given 0, as a caller may
StructTimes ==
    { datetime_to_struct_time(v) : v \in Datetimes }
    \cup { [datetime_to_struct_time(v) EXCEPT !.tm_wday = 0, !.tm_yday = 0, !.tm_isdst = 0] :
             v \in Datetimes }

CalendarValues ==
    Datetimes \cup StructTimes
        \cup { [tm_year |-> 2013, tm_mon |-> 4, tm_mday |-> 3, tm_hour |-> 10,
                tm_min |-> 54, tm_sec |-> 0, tm_wday |-> 0, tm_yday |-> 0,
                tm_isdst |-> 0],
               datetime_to_struct_time([year |-> 2011, month |-> 11, day |-> 2,
                                        hour |-> 20, minute |-> 38, second |-> 42]) }

\* the endpoints of the ranges formatted: at midnight, with seconds only,
\* with a time of day; with tm_wday right, and zeroed
RangeValues ==
    LET whens == { [year |-> 2011, month |-> 11, day |-> d[1],
                    hour |-> d[2], minute |-> d[3], second |-> d[4]] :
                     d \in { <<29, 0, 0, 0>>, <<29, 20, 38, 42>>, <<29, 0, 0, 42>>,
                             <<30, 0, 0, 0>>, <<30, 23, 59, 58>>, <<30, 23, 59, 0>> } }
    IN  { datetime_to_struct_time(v) : v \in whens }
        \cup { [datetime_to_struct_time(v) EXCEPT !.tm_wday = 0, !.tm_yday = 0, !.tm_isdst = 0] :
                 v \in whens }

\* the ambient zones: TZ=UTC0, CET-1 (Europe/Vienna in winter), EST5, IST-5:30
Zones ==
    { [name |-> "UTC0", utcoff |-> 0],
      [name |-> "CET-1", utcoff |-> 60 * 60],
      [name |-> "EST5", utcoff |-> -5 * 60 * 60],
      [name |-> "IST-5:30", utcoff |-> 5 * 60 * 60 + 30 * 60] }

\* year, month, day of the compact strings: those of the tests, the ends of
\* months and years, and what no calendar has
UtcDates ==
    { <<2011, 12, 19>>, <<1899, 12, 30>>, <<2011, 11, 2>>, <<2020, 2, 29>>,
      <<2019, 12, 31>>, <<2020, 1, 1>>,
      <<2011, 13, 19>>, <<2011, 2, 30>>, <<2011, 0, 19>>, <<2011, 12, 32>> }

\* hour, minute, second of the compact strings
UtcClocks ==
    { <<20, 55, 10>>, <<0, 0, 0>>, <<23, 30, 0>>, <<0, 15, 10>>, <<14, 48, 54>>,
      <<24, 0, 0>>, <<12, 60, 0>>, <<23, 59, 60>> }

\* YYYYMMDD
CompactDate(d) == ZeroPad(d[1], 4) \o ZeroPad(d[2], 2) \o ZeroPad(d[3], 2)

\* YYYYMMDDTHHMMSS
CompactStamp(d, c) ==
    CompactDate(d) \o <<"T">> \o ZeroPad(c[1], 2) \o ZeroPad(c[2], 2) \o ZeroPad(c[3], 2)

\* YYYY-MM-DDTHH:MM:SS.ffffffZ
FractionalStamp(d, c) ==
    ZeroPad(d[1], 4) \o <<"-">> \o ZeroPad(d[2], 2) \o <<"-">> \o ZeroPad(d[3], 2)
        \o <<"T">> \o ZeroPad(c[1], 2) \o <<":">> \o ZeroPad(c[2], 2) \o <<":">>
        \o ZeroPad(c[3], 2) \o <<".", "9", "0", "8", "3", "7", "1", "Z">>

Test_utc_wrong_separator ==
    <<"2","0","1","1","1","2","1","9","x","2","0","5","5","1","0","Z">>

Test_utc_month_13 == <<"2","0","1","1","1","3","1","9">>

\* strings of no recognised length, and strings of a recognised length that
\* are not of its format
UtcMalformed ==
    { <<"f","o","o","b","a","r">>, <<>>, Test_utc_wrong_separator, Test_utc_month_13,
      <<"2","0","1","1","1","2","1","9","0">>,
      <<"2","0","1","1","1","2","9">>,
      <<"2","0","1","1","1","2"," ","9">>,
      <<"2","0","1","1"," ","2","1","9">>,
      <<"2","0","1","1","1","2","1","9","T","2","0","5","5","1","0","Z","\n">>,
      <<"2","0","1","1","1","2","1","9","t","2","0","5","5","1","0","z">>,
      <<"2","0","1","1","1","2","1","9","T","2","0","5","5","1","0","X">>,
      <<"2","0","1","1","1","2","1","9"," ","2","0","5","5","1","0">>,
      <<"2","0","1","1","1","2","1","9","T","2","0","5","5">>,
      <<"2","0","1","1","-","1","1","-","0","2","T","1","4",":","4","8",":","5","4","Z">>,
      <<"2","0","1","1","-","1","1","-","0","2","T","1","4",":","4","8",":","5","4",
        "X","9","0","8","3","7","1","Z">>,
      <<"2","0","1","1","-","1","1","-","0","2","T","1","4",".","4","8",".","5","4",
        ".","9","0","8","3","7","1","Z">>,
      <<"2","0","1","1","-","1","1","-","0","2","T","1","4",":","4","8",":","5","4",
        ".","9","0","8","3","7","1","2","Z">> }

\* the strings handed to datetupelutctimestamp
UtcStrings ==
    { CompactDate(d) : d \in UtcDates }
        \cup { CompactStamp(d, c) : d \in UtcDates, c \in UtcClocks }
        \cup { CompactStamp(d, c) \o <<"Z">> : d \in UtcDates, c \in UtcClocks }
        \cup { FractionalStamp(d, c) : d \in UtcDates, c \in UtcClocks }
        \cup UtcMalformed

\* year, month, day and hour, minute, second of the ISO strings
IsoDates == { <<2011, 1, 2>>, <<2011, 11, 30>>, <<1899, 12, 30>>, <<2011, 2, 30>> }

IsoClocks == { <<3, 4, 5>>, <<21, 6, 2>>, <<23, 59, 58>>, <<0, 0, 0>> }

\* a number in two digits, or as short as it is
Spelled(n, padded) == IF padded THEN ZeroPad(n, 2) ELSE ZeroPad(n, 1)

\* YYYY-MM-DD or YYYY-M-D
IsoDate(d, padded) ==
    ZeroPad(d[1], 4) \o <<"-">> \o Spelled(d[2], padded) \o <<"-">> \o Spelled(d[3], padded)

\* the date, T or a space, and the time with "." or ":" between its fields,
\* with its seconds or without
IsoDateTime(d, c, padded, date_sep, time_sep, seconds) ==
    IsoDate(d, padded) \o <<date_sep>> \o Spelled(c[1], padded) \o <<time_sep>>
        \o Spelled(c[2], padded)
        \o (IF seconds THEN <<time_sep>> \o Spelled(c[3], padded) ELSE <<>>)

\* the strings handed to datetimetupeliso8601
IsoStrings ==
    { IsoDate(d, padded) : d \in IsoDates, padded \in BOOLEAN }
        \cup { IsoDateTime(d, c, padded, date_sep, time_sep, seconds) :
                 d \in IsoDates, c \in IsoClocks, padded \in BOOLEAN,
                 date_sep \in {"T", " "}, time_sep \in {".", ":"},
                 seconds \in BOOLEAN }
        \cup { <<"f", "o", "o">>,
               <<"2","0","1","1","-","1","3","-","0","2","T","0","3",".","0","4">>,
               <<"2","0","1","1","-","0","1","-","0","2","T","2","4",".","0","4">>,
               <<"2","0","1","1","-","0","1","-","0","2","T","0","3",".","0","4",".","6","2">> }

\* a caller hands the result of a call back in at most MaxSteps times in all
MaxSteps == 3

\* the deltas of the calls that follow the first
ChainDeltas == { <<1, 1>>, <<-1, 1>>, <<5, 2>>, <<-5, 2>>, <<1, 120>>, <<-1, 120>> }

\* the time-stamps and ranges of Strings from which a caller goes on: active
\* and inactive, English and German tokens, right and wrong, at the ends of a
\* year and of the years of the grammar, with a line break after, with
\* brackets that do not match, with one dash and with two
ChainSeeds ==
    { Stamp("<", <<2019, 11, 5>>, <<"T","u","e">>, <<23, 59>>, ">"),
      Stamp("[", <<2019, 11, 5>>, <<"D","i">>, <<23, 59>>, "]"),
      Stamp("<", <<2020, 2, 29>>, <<"S","o","n">>, <<0, 0>>, ">"),
      Stamp("<", <<1000, 1, 1>>, <<"T","u","e">>, <<0, 0>>, ">"),
      Stamp("<", <<2999, 12, 31>>, <<"T","u","e">>, <<23, 59>>, ">"),
      Stamp("<", <<2019, 11, 5>>, <<"T","u","e">>, <<23, 59>>, "]"),
      Stamp("<", <<2019, 11, 5>>, <<"T","u","e">>, <<23, 59>>, ">") \o <<"\n">>,
      Stamp("<", <<2019, 12, 31>>, <<"T","u","e">>, <<23, 0>>, ">") \o <<"-">>
          \o Stamp("<", <<2019, 12, 31>>, <<"T","u","e">>, <<23, 30>>, ">"),
      Stamp("<", <<2020, 1, 1>>, <<"W","e","d">>, <<1, 30>>, ">") \o <<"-", "-">>
          \o Stamp("<", <<2020, 1, 1>>, <<"W","e","d">>, <<2, 0>>, ">"),
      Stamp("[", <<2019, 12, 31>>, <<"T","u","e">>, <<23, 30>>, "]") \o <<"-", "-">>
          \o Stamp("[", <<2020, 2, 29>>, <<"T","u","e">>, <<1, 30>>, "]"),
      Stamp("<", <<2020, 2, 29>>, <<"T","u","e">>, <<23, 30>>, ">") \o <<"-">>
          \o Stamp("<", <<2019, 12, 31>>, <<"T","u","e">>, <<1, 30>>, ">"),
      Stamp("<", <<2019, 11, 5>>, <<"T","u","e">>, <<23, 59>>, ">") \o <<"-", "-">>
          \o Stamp("<", <<2019, 11, 5>>, <<"T","u","e">>, <<23, 59>>, ">") \o <<"\n">> }

\* the string a chain of calls started from, and the deltas applied before the
\* call at hand
Start(a) == IF "start" \in DOMAIN a THEN a.start ELSE a.orgtime

Before(a) == IF "before" \in DOMAIN a THEN a.before ELSE <<>>

\* --------------------------------------------------------- state machine

\* Every operation is a static method without state: a caller hands it its
\* arguments and gets a value or an exception, which it then drops.
Init ==
    /\ op = "idle"
    /\ args = <<>>
    /\ result = Ok(<<>>)

ParseTimestamp ==
    /\ op = "idle"
    /\ \E s \in Strings :
        /\ op' = "orgmode_timestamp_to_datetime"
        /\ args' = [orgtime |-> s]
        /\ result' = orgmode_timestamp_to_datetime(s)

ApplyHourDelta ==
    /\ op = "idle"
    /\ \E s \in Strings, d \in Deltas :
        /\ op' = "apply_timedelta_to_Orgmode_timestamp"
        /\ args' = [orgtime |-> s, deltahours |-> d]
        /\ result' = apply_timedelta_to_Orgmode_timestamp(s, d)

FormatTimestamp ==
    /\ op = "idle"
    /\ \E v \in CalendarValues, show_time \in BOOLEAN, inactive \in BOOLEAN :
        /\ op' = "date"
        /\ args' = [tuple_date |-> v, show_time |-> show_time, inactive |-> inactive]
        /\ result' = date(v, show_time, inactive)

FormatInactive ==
    /\ op = "idle"
    /\ \E v \in CalendarValues, show_time \in BOOLEAN :
        /\ op' = "inactive_date"
        /\ args' = [tuple_date |-> v, show_time |-> show_time]
        /\ result' = inactive_date(v, show_time)

DateRange ==
    /\ op = "idle"
    /\ \E b \in RangeValues, e \in RangeValues :
        /\ op' = "daterange"
        /\ args' = [begin |-> b, end |-> e]
        /\ result' = daterange(b, e)

DateTimeRange ==
    /\ op = "idle"
    /\ \E b \in RangeValues, e \in RangeValues :
        /\ op' = "datetimerange"
        /\ args' = [begin |-> b, end |-> e]
        /\ result' = datetimerange(b, e)

UtcRange ==
    /\ op = "idle"
    /\ \E b \in RangeValues, e \in RangeValues :
        /\ op' = "utcrange"
        /\ args' = [begin |-> b, end |-> e]
        /\ result' = utcrange(b, e)

FormatRange ==
    /\ op = "idle"
    /\ \E b \in RangeValues, e \in RangeValues, show_time \in BOOLEAN, inactive \in BOOLEAN :
        /\ op' = "formatRange"
        /\ args' = [begin |-> b, end |-> e, show_time |-> show_time, inactive |-> inactive]
        /\ result' = formatRange(b, e, show_time, inactive)

FormatRangeAutoTime ==
    /\ op = "idle"
    /\ \E b \in RangeValues, e \in RangeValues, inactive \in BOOLEAN :
        /\ op' = "formatRangeAutoTime"
        /\ args' = [begin |-> b, end |-> e, inactive |-> inactive]
        /\ result' = formatRangeAutoTime(b, e, inactive)

\* the ambient zone and the interpreter's -O flag are the caller's
\* environment
ParseUtcCompact ==
    /\ op = "idle"
    /\ \E s \in UtcStrings, tz \in Zones, optimize \in BOOLEAN :
        /\ op' = "datetupelutctimestamp"
        /\ args' = [datetime_string |-> s, tz |-> tz, optimize |-> optimize]
        /\ result' = datetupelutctimestamp(s, tz, optimize)

\* the caller hands the time-stamp it got back in, with another delta
ApplyAgain ==
    /\ op = "apply_timedelta_to_Orgmode_timestamp"
    /\ result.kind = "ok"
    /\ Start(args) \in ChainSeeds
    /\ Len(Before(args)) + 1 < MaxSteps
    /\ \E d \in ChainDeltas :
        /\ op' = "apply_timedelta_to_Orgmode_timestamp"
        /\ args' = [orgtime |-> result.value, deltahours |-> d,
                    start |-> Start(args),
                    before |-> Append(Before(args), args.deltahours)]
        /\ result' = apply_timedelta_to_Orgmode_timestamp(result.value, d)

FixWeekday ==
    /\ op = "idle"
    /\ \E t \in StructTimes :
        /\ op' = "fix_struct_time_wday"
        /\ args' = [tuple_date |-> t]
        /\ result' = fix_struct_time_wday(t)

ParseIso8601DateTime ==
    /\ op = "idle"
    /\ \E s \in IsoStrings, optimize \in BOOLEAN :
        /\ op' = "datetimetupeliso8601"
        /\ args' = [datetime_string |-> s, optimize |-> optimize]
        /\ result' = datetimetupeliso8601(s, optimize)

\* the value or the exception is dropped
Return ==
    /\ op # "idle"
    /\ op' = "idle"
    /\ args' = <<>>
    /\ result' = Ok(<<>>)

Next ==
    \/ ParseTimestamp
    \/ ApplyHourDelta
    \/ FormatTimestamp
    \/ FormatInactive
    \/ DateRange
    \/ DateTimeRange
    \/ UtcRange
    \/ FormatRange
    \/ FormatRangeAutoTime
    \/ ParseUtcCompact
    \/ ParseIso8601DateTime
    \/ FixWeekday
    \/ ApplyAgain
    \/ Return

Spec == Init /\ [][Next]_vars

\* ============================================================ properties
\* What the properties say is stated with definitions of their own: a reader
\* of time-stamps by their separators, a weekday by Sakamoto's method, a day
\* count by the civil-calendar formula; none of them is used by the model of
\* the code above.

EnglishWeekdays ==
    << <<"S","u","n">>, <<"M","o","n">>, <<"T","u","e">>, <<"W","e","d">>,
       <<"T","h","u">>, <<"F","r","i">>, <<"S","a","t">> >>

\* the English abbreviation of the weekday of a date
RefWeekdayName(year, month, day) ==
    LET y == IF month < 3 THEN year - 1 ELSE year
        k == <<0, 3, 2, 5, 0, 3, 5, 1, 4, 6, 2, 4>>[month]
    IN  EnglishWeekdays[((y + (y \div 4) - (y \div 100) + (y \div 400) + k + day) % 7) + 1]

RefDaysInMonth(year, month) ==
    CASE month \in {4, 6, 9, 11} -> 30
      [] month = 2 -> IF (year % 4 = 0 /\ year % 100 # 0) \/ year % 400 = 0 THEN 29 ELSE 28
      [] OTHER -> 31

\* the days from 1970-01-01 to a date of the proleptic Gregorian calendar
RefDays(year, month, day) ==
    LET y   == IF month <= 2 THEN year - 1 ELSE year
        era == y \div 400
        yoe == y - era * 400
        mp  == (month + 9) % 12
        doy == ((153 * mp + 2) \div 5) + day - 1
        doe == yoe * 365 + (yoe \div 4) - (yoe \div 100) + doy
    IN  era * 146097 + doe - 719468

\* whether needle is a part of haystack
Contains(haystack, needle) ==
    \E i \in 1..(Len(haystack) - Len(needle) + 1) :
        SubSeq(haystack, i, i + Len(needle) - 1) = needle

AllDigits(cs) == cs # <<>> /\ \A i \in 1..Len(cs) : IsDigit(cs[i])

\* s without the line break that may end it
Chomp(s) == IF s # <<>> /\ s[Len(s)] = "\n" THEN SubSeq(s, 1, Len(s) - 1) ELSE s

\* the index of the first character of s that is in cs, 0 when there is none
FirstOf(s, cs) ==
    IF \E i \in 1..Len(s) : s[i] \in cs
    THEN CHOOSE i \in 1..Len(s) : s[i] \in cs /\ \A j \in 1..(i - 1) : s[j] \notin cs
    ELSE 0

\* whether s is o, a year, "-MM-DD ", an English weekday and c, with " HH:MM"
\* before c exactly when timed
IsRendered(s, o, c, timed) ==
    LET d == FirstOf(s, {"-"})
        n == Len(s)
        e == IF timed THEN n - 7 ELSE n - 1
    IN  /\ d > 2 /\ n >= d + 10
        /\ s[1] = o /\ s[n] = c
        /\ AllDigits(Slice(s, 2, d - 1))
        /\ AllDigits(Slice(s, d + 1, d + 2)) /\ At(s, d + 3) = "-"
        /\ AllDigits(Slice(s, d + 4, d + 5)) /\ At(s, d + 6) = " "
        /\ \E k \in 1..7 : Slice(s, d + 7, e) = EnglishWeekdays[k]
        /\ timed => /\ At(s, n - 6) = " "
                    /\ AllDigits(Slice(s, n - 5, n - 4)) /\ At(s, n - 3) = ":"
                    /\ AllDigits(Slice(s, n - 2, n - 1))

\* the fields of a time-stamp with a time, read by its separators
ReadStamp(s) ==
    LET d == FirstOf(s, {"-"})
        n == Len(s)
    IN  [year   |-> IntOf(Slice(s, 2, d - 1)),
         month  |-> IntOf(Slice(s, d + 1, d + 2)),
         day    |-> IntOf(Slice(s, d + 4, d + 5)),
         token  |-> Slice(s, d + 7, n - 7),
         hour   |-> IntOf(Slice(s, n - 5, n - 4)),
         minute |-> IntOf(Slice(s, n - 2, n - 1))]

\* whether the date fields of f are a date of the calendar
IsCalendarDate(f) ==
    f.year >= 1 /\ f.month \in 1..12 /\ f.day >= 1 /\ f.day <= RefDaysInMonth(f.year, f.month)

\* the minutes from 1970-01-01 00:00 to f
RefMinutes(f) == RefDays(f.year, f.month, f.day) * 1440 + f.hour * 60 + f.minute

\* deltaHours in seconds (2.5 is 2 h 30 min)
RefDeltaSeconds(d) == (d[1] * 60 * 60) \div d[2]

\* whether the time-stamp `out` is the active rendering, with its time, of the
\* instant of the time-stamp `in` (at second 0) plus deltaHours: the minute
\* that holds it (\div rounds down)
IsShifted(in, out, deltaHours) ==
    LET i == ReadStamp(Chomp(in))
        o == ReadStamp(out)
    IN  /\ IsRendered(out, "<", ">", TRUE)
        /\ IsCalendarDate(o) /\ o.hour \in 0..23 /\ o.minute \in 0..59
        /\ RefMinutes(o) = RefMinutes(i) + (RefDeltaSeconds(deltaHours) \div 60)
        /\ o.token = RefWeekdayName(o.year, o.month, o.day)

Applied == op = "apply_timedelta_to_Orgmode_timestamp"

\* the examples of the docstring and of the tests
Doc_2019_11_05_2359 ==
    <<"<","2","0","1","9","-","1","1","-","0","5"," ","T","u","e"," ","2","3",":","5","9",">">>
Doc_2019_11_06_0059 ==
    <<"<","2","0","1","9","-","1","1","-","0","6"," ","W","e","d"," ","0","0",":","5","9",">">>
Doc_2019_12_31_2300 ==
    <<"<","2","0","1","9","-","1","2","-","3","1"," ","T","u","e"," ","2","3",":","0","0",">">>
Doc_2020_01_01_0130 ==
    <<"<","2","0","2","0","-","0","1","-","0","1"," ","W","e","d"," ","0","1",":","3","0",">">>
Doc_2019_11_05_2358 ==
    <<"<","2","0","1","9","-","1","1","-","0","5"," ","T","u","e"," ","2","3",":","5","8",">">>

\* C1: applyHourDelta of a single time-stamp of the grammar, with a date of
\* the calendar, returns the active rendering of its instant plus deltaHours:
\* the date rolls over days, months and years, the weekday is the one of the
\* new date whatever token the input had, the seconds are dropped.
C1_SingleShift ==
    /\ (Applied /\ ORGMODE_TIMESTAMP_REGEX(args.orgtime)
            /\ IsCalendarDate(ReadStamp(Chomp(args.orgtime))))
        => /\ result.kind = "ok"
           /\ IsShifted(args.orgtime, result.value, args.deltahours)
    /\ (Applied /\ args.orgtime = Doc_2019_11_05_2359)
        => /\ args.deltahours = <<1, 1>> => result.value = Doc_2019_11_06_0059
           /\ args.deltahours = <<-1, 120>> => result.value = Doc_2019_11_05_2358
           /\ args.deltahours = <<1, 120>> => result.value = Doc_2019_11_05_2359
    /\ (Applied /\ args.orgtime = Doc_2019_12_31_2300 /\ args.deltahours = <<5, 2>>)
        => result.value = Doc_2020_01_01_0130
    /\ (Applied /\ args.orgtime = Doc_2020_01_01_0130 /\ args.deltahours = <<-5, 2>>)
        => result.value = Doc_2019_12_31_2300

\* a leap day is reached from a time-stamp with a wrong, German weekday token
C1_Witness ==
    /\ Applied
    /\ args.orgtime = Stamp("[", <<2020, 2, 28>>, <<"D","i">>, <<23, 59>>, "]")
    /\ args.deltahours = <<5, 2>>
    /\ result.kind = "ok"
    /\ ReadStamp(result.value).day = 29
    /\ ReadStamp(result.value).token = <<"S","a","t">>

\* the two time-stamps of a range, read by its brackets
RefBegin(s) == Slice(s, 1, FirstOf(s, {">", "]"}))

RefEnd(s) ==
    LET rest == Slice(s, FirstOf(s, {">", "]"}) + 1, Len(s))
    IN  Chomp(Slice(rest, FirstOf(rest, {"<", "["}), Len(rest)))

\* the dashes between the two time-stamps of a range
RefDashes(s) ==
    LET rest == Slice(s, FirstOf(s, {">", "]"}) + 1, Len(s))
    IN  Slice(rest, 1, FirstOf(rest, {"<", "["}) - 1)

Doc_Range_2019_dash ==
    <<"<","2","0","1","9","-","1","2","-","3","1"," ","T","u","e"," ","2","3",":","0","0",">","-","<","2","0","1","9","-","1","2","-","3","1"," ","T","u","e"," ","2","3",":","3","0",">">>
Doc_Range_2020 ==
    <<"<","2","0","2","0","-","0","1","-","0","1"," ","W","e","d"," ","0","1",":","3","0",">","-","-","<","2","0","2","0","-","0","1","-","0","1"," ","W","e","d"," ","0","2",":","0","0",">">>
Doc_Range_2019 ==
    <<"<","2","0","1","9","-","1","2","-","3","1"," ","T","u","e"," ","2","3",":","0","0",">","-","-","<","2","0","1","9","-","1","2","-","3","1"," ","T","u","e"," ","2","3",":","3","0",">">>

\* C2: applyHourDelta of a range of the range grammar, its endpoints dates of
\* the calendar, shifts the begin and the end by the same deltaHours and
\* returns them, begin first, joined by exactly two dashes, whether the input
\* had one dash or two.
C2_RangeShift ==
    /\ (Applied /\ ORGMODE_TIMESTAMP_RANGE_REGEX(args.orgtime)
            /\ IsCalendarDate(ReadStamp(RefBegin(args.orgtime)))
            /\ IsCalendarDate(ReadStamp(RefEnd(args.orgtime))))
        => /\ result.kind = "ok"
           /\ RefDashes(result.value) = <<"-", "-">>
           /\ IsShifted(RefBegin(args.orgtime), RefBegin(result.value), args.deltahours)
           /\ IsShifted(RefEnd(args.orgtime), RefEnd(result.value), args.deltahours)
           /\ result.value = RefBegin(result.value) \o <<"-", "-">> \o RefEnd(result.value)
    /\ (Applied /\ args.orgtime = Doc_Range_2019_dash /\ args.deltahours = <<5, 2>>)
        => result.value = Doc_Range_2020
    /\ (Applied /\ args.orgtime = Doc_Range_2020 /\ args.deltahours = <<-5, 2>>)
        => result.value = Doc_Range_2019

\* a range with one dash, its end on another day than its begin, is shifted
C2_Witness ==
    /\ Applied
    /\ ORGMODE_TIMESTAMP_RANGE_REGEX(args.orgtime)
    /\ RefDashes(args.orgtime) = <<"-">>
    /\ ReadStamp(RefBegin(args.orgtime)).day # ReadStamp(RefEnd(args.orgtime)).day
    /\ args.deltahours = <<5, 2>>
    /\ result.kind = "ok"
    /\ RefDashes(result.value) = <<"-", "-">>

\* C3: whatever applyHourDelta returns, for an active or an inactive
\* time-stamp or range, is made of active time-stamps with their time: no
\* square bracket, no time-stamp of a date alone.
C3_ResultActiveWithTime ==
    (Applied /\ result.kind = "ok")
        => /\ \A i \in 1..Len(result.value) : result.value[i] \notin {"[", "]"}
           /\ \/ IsRendered(result.value, "<", ">", TRUE)
              \/ /\ IsRendered(RefBegin(result.value), "<", ">", TRUE)
                 /\ IsRendered(RefEnd(result.value), "<", ">", TRUE)
                 /\ result.value = RefBegin(result.value) \o <<"-", "-">> \o RefEnd(result.value)

\* an inactive range is shifted
C3_Witness ==
    /\ Applied
    /\ ORGMODE_TIMESTAMP_RANGE_REGEX(args.orgtime)
    /\ args.orgtime[1] = "[" /\ args.orgtime[Len(args.orgtime)] = "]"
    /\ result.kind = "ok"

Parsed == op = "orgmode_timestamp_to_datetime"

Test_1980_active ==
    <<"<","1","9","8","0","-","1","2","-","3","1"," ","W","e","d"," ","2","3",":","5","9",">">>
Test_1980_inactive ==
    <<"[","1","9","8","0","-","1","2","-","3","1"," ","W","e","d"," ","2","3",":","5","9","]">>
Test_1980_no_weekday ==
    <<"<","1","9","8","0","-","1","2","-","3","1"," ","2","3",":","5","9",">">>
Test_foobar ==
    <<"f","o","o","b","a","r">>

\* C4: parseTimestamp returns, for an active or an inactive time-stamp of the
\* grammar with a date of the calendar, the year, month, day, hour and minute
\* written in it and second 0; for a string the grammar does not match (free
\* text, a time-stamp without its weekday) it raises TimestampParseException
\* with a message that holds the string, and returns nothing.
C4_ParseOrRaise ==
    /\ (Parsed /\ ORGMODE_TIMESTAMP_REGEX(args.orgtime)
            /\ IsCalendarDate(ReadStamp(Chomp(args.orgtime))))
        => /\ result.kind = "ok"
           /\ LET f == ReadStamp(Chomp(args.orgtime))
              IN  result.value = [year |-> f.year, month |-> f.month, day |-> f.day,
                                  hour |-> f.hour, minute |-> f.minute, second |-> 0]
    /\ (Parsed /\ ~ORGMODE_TIMESTAMP_REGEX(args.orgtime))
        => /\ result.kind = "TimestampParseException"
           /\ Contains(result.value, args.orgtime)
    /\ (Parsed /\ args.orgtime \in {Test_1980_active, Test_1980_inactive})
        => /\ result.kind = "ok"
           /\ result.value = [year |-> 1980, month |-> 12, day |-> 31,
                              hour |-> 23, minute |-> 59, second |-> 0]
    /\ (Parsed /\ args.orgtime \in {Test_1980_no_weekday, Test_foobar})
        => result.kind = "TimestampParseException"

\* the time-stamp without a weekday is refused, its text in the message
C4_Witness ==
    /\ Parsed
    /\ args.orgtime = Test_1980_no_weekday
    /\ result.kind = "TimestampParseException"
    /\ Contains(result.value, Test_1980_no_weekday)

\* a single time-stamp of the grammar whose date no calendar has
IsBadDateStamp(s) ==
    ORGMODE_TIMESTAMP_REGEX(s) /\ ~IsCalendarDate(ReadStamp(Chomp(s)))

\* C5: a time-stamp of the grammar whose month or day the date library refuses
\* makes parseTimestamp and applyHourDelta raise TimestampParseException, and
\* no operation raises anything else.
C5_OnlyTimestampErrors ==
    /\ ((Parsed \/ Applied) /\ IsBadDateStamp(args.orgtime))
        => result.kind = "TimestampParseException"
    /\ (Parsed \/ Applied) => result.kind \in {"ok", "TimestampParseException"}

\* a time-stamp shaped like those of the grammar that opens with one kind of
\* bracket and closes with the other
IsMixedStamp(s) ==
    /\ Len(s) > 2
    /\ \/ s[1] = "<" /\ s[Len(s)] = "]"
       \/ s[1] = "[" /\ s[Len(s)] = ">"
    /\ LET paired == <<"<">> \o Slice(s, 2, Len(s) - 1) \o <<">">>
       IN  ORGMODE_TIMESTAMP_REGEX(paired) /\ IsCalendarDate(ReadStamp(paired))

\* C6: a time-stamp with brackets of two kinds is refused by parseTimestamp
\* and by applyHourDelta with TimestampParseException.
C6_MixedBracketsRefused ==
    ((Parsed \/ Applied) /\ IsMixedStamp(args.orgtime))
        => result.kind = "TimestampParseException"

\* whether a time-stamp is an active one, brackets of one kind
IsActiveStamp(s) == s # <<>> /\ s[1] = "<" /\ s[Len(s)] = ">"

IsInactiveStamp(s) == s # <<>> /\ s[1] = "[" /\ s[Len(s)] = "]"

\* two time-stamps of the grammar, dates of the calendar, one active and one
\* inactive, joined by one or two dashes
IsMixedRange(s) ==
    /\ RefDashes(s) \in {<<"-">>, <<"-", "-">>}
    /\ s = RefBegin(s) \o RefDashes(s) \o RefEnd(s)
    /\ ORGMODE_TIMESTAMP_REGEX(RefBegin(s)) /\ ORGMODE_TIMESTAMP_REGEX(RefEnd(s))
    /\ IsCalendarDate(ReadStamp(RefBegin(s))) /\ IsCalendarDate(ReadStamp(RefEnd(s)))
    /\ \/ IsActiveStamp(RefBegin(s)) /\ IsInactiveStamp(RefEnd(s))
       \/ IsInactiveStamp(RefBegin(s)) /\ IsActiveStamp(RefEnd(s))

\* C7: a range with one active and one inactive endpoint is not taken for a
\* range by applyHourDelta: the range pattern does not match it and nothing
\* is returned for it.
C7_MixedRangeRefused ==
    (Applied /\ IsMixedRange(args.orgtime))
        => /\ ~ORGMODE_TIMESTAMP_RANGE_REGEX(args.orgtime)
           /\ result.kind = "TimestampParseException"

\* the calendar fields of a value of either shape
RefFields(v) ==
    IF "tm_year" \in DOMAIN v
    THEN [year |-> v.tm_year, month |-> v.tm_mon, day |-> v.tm_mday,
          hour |-> v.tm_hour, minute |-> v.tm_min, second |-> v.tm_sec]
    ELSE [year |-> v.year, month |-> v.month, day |-> v.day,
          hour |-> v.hour, minute |-> v.minute, second |-> v.second]

RefTwoDigits(n) == <<DigitChars[(n \div 10) + 1], DigitChars[(n % 10) + 1]>>

\* the time-stamp of a value: its brackets by `inactive`, the date with two
\* digits a field (four for the year), the English weekday of the date, and
\* the hour and the minute exactly when timed
RefRendering(v, timed, inactive) ==
    LET f == RefFields(v)
    IN  <<IF inactive THEN "[" ELSE "<">>
            \o RefTwoDigits(f.year \div 100) \o RefTwoDigits(f.year % 100)
            \o <<"-">> \o RefTwoDigits(f.month) \o <<"-">> \o RefTwoDigits(f.day)
            \o <<" ">> \o RefWeekdayName(f.year, f.month, f.day)
            \o (IF timed
                THEN <<" ">> \o RefTwoDigits(f.hour) \o <<":">> \o RefTwoDigits(f.minute)
                ELSE <<>>)
            \o <<IF inactive THEN "]" ELSE ">">>

\* whether a value is the given date and time
IsAt(v, year, month, day, hour, minute, second) ==
    RefFields(v) = [year |-> year, month |-> month, day |-> day,
                    hour |-> hour, minute |-> minute, second |-> second]

Test_2013_04_03_Wed_1054 ==
    <<"<","2","0","1","3","-","0","4","-","0","3"," ","W","e","d"," ","1","0",":","5","4",">">>
Test_2011_11_02_Wed ==
    <<"<","2","0","1","1","-","1","1","-","0","2"," ","W","e","d",">">>
Test_2011_11_02_Wed_2038_inactive ==
    <<"[","2","0","1","1","-","1","1","-","0","2"," ","W","e","d"," ","2","0",":","3","8","]">>

Test_Range_2011_dates ==
    <<"<","2","0","1","1","-","1","1","-","2","9"," ","T","u","e",">","-","-","<","2","0","1","1","-","1","1","-","3","0"," ","W","e","d",">">>
Test_Range_2011_times_inactive ==
    <<"[","2","0","1","1","-","1","1","-","2","9"," ","T","u","e"," ","2","0",":","3","8","]","-","-","[","2","0","1","1","-","1","1","-","3","0"," ","W","e","d"," ","2","3",":","5","9","]">>
Test_Range_2011_midnight_inactive ==
    <<"[","2","0","1","1","-","1","1","-","2","9"," ","T","u","e"," ","0","0",":","0","0","]","-","-","[","2","0","1","1","-","1","1","-","3","0"," ","W","e","d"," ","2","3",":","5","9","]">>
Test_Range_2011_dates_inactive ==
    <<"[","2","0","1","1","-","1","1","-","2","9"," ","T","u","e","]","-","-","[","2","0","1","1","-","1","1","-","3","0"," ","W","e","d","]">>

\* the range of two values: both rendered alike, begin first, two dashes
RefRange(begin, end, timed, inactive) ==
    RefRendering(begin, timed, inactive) \o <<"-", "-">> \o RefRendering(end, timed, inactive)

RefHasTime(v) ==
    RefFields(v).hour # 0 \/ RefFields(v).minute # 0 \/ RefFields(v).second # 0

RefMidnight(v) ==
    RefFields(v).hour = 0 /\ RefFields(v).minute = 0 /\ RefFields(v).second = 0

\* C11: utcrange returns what daterange returns when hour, minute and second
\* are zero on both endpoints and what datetimerange returns in every other
\* case; the result is an active range: two time-stamps in angle brackets
\* joined with "--".
C11_UtcRange ==
    op = "utcrange"
        => /\ result.kind = "ok"
           /\ (RefMidnight(args.begin) /\ RefMidnight(args.end))
                => /\ result = daterange(args.begin, args.end)
                   /\ result.value = RefRange(args.begin, args.end, FALSE, FALSE)
           /\ ~(RefMidnight(args.begin) /\ RefMidnight(args.end))
                => /\ result = datetimerange(args.begin, args.end)
                   /\ result.value = RefRange(args.begin, args.end, TRUE, FALSE)
           /\ IsActiveStamp(RefBegin(result.value))
           /\ IsActiveStamp(RefEnd(result.value))
           /\ RefDashes(result.value) = <<"-", "-">>

\* an end with seconds alone brings the time onto both endpoints
C11_Witness ==
    /\ op = "utcrange"
    /\ RefMidnight(args.begin)
    /\ IsAt(args.end, 2011, 11, 29, 0, 0, 42)
    /\ result.kind = "ok"
    /\ Contains(result.value, <<" ", "0", "0", ":", "0", "0", ">", "-", "-", "<">>)

\* whether a rendered range shows a time of day on its first time-stamp
ShowsTime(range) == Contains(RefBegin(range), <<":">>)

RefNumber(s, a, b) ==
    IF b <= Len(s) /\ AllDigits(Slice(s, a, b)) THEN IntOf(Slice(s, a, b)) ELSE -1

\* a year, month and day of the calendar and an hour, minute and second of the
\* clock (a leap second included)
RefInRange(year, month, day, hour, minute, second) ==
    /\ year >= 1
    /\ month \in 1..12
    /\ day >= 1 /\ day <= RefDaysInMonth(year, month)
    /\ hour \in 0..23 /\ minute \in 0..59 /\ second \in 0..61

\* YYYYMMDD, read by position
RefIsCompactDate(s) ==
    /\ Len(s) >= 8
    /\ RefNumber(s, 1, 4) >= 0 /\ RefNumber(s, 5, 6) >= 0 /\ RefNumber(s, 7, 8) >= 0
    /\ RefInRange(RefNumber(s, 1, 4), RefNumber(s, 5, 6), RefNumber(s, 7, 8), 0, 0, 0)

\* YYYYMMDDTHHMMSS, read by position
RefIsCompactStamp(s) ==
    /\ Len(s) >= 15
    /\ RefIsCompactDate(s)
    /\ s[9] = "T"
    /\ RefNumber(s, 10, 11) >= 0 /\ RefNumber(s, 12, 13) >= 0 /\ RefNumber(s, 14, 15) >= 0
    /\ RefInRange(RefNumber(s, 1, 4), RefNumber(s, 5, 6), RefNumber(s, 7, 8),
                  RefNumber(s, 10, 11), RefNumber(s, 12, 13), RefNumber(s, 14, 15))

\* YYYY-MM-DDTHH:MM:SS.ffffffZ, read by position
RefIsFractionalStamp(s) ==
    /\ Len(s) = 27
    /\ s[5] = "-" /\ s[8] = "-" /\ s[11] = "T" /\ s[14] = ":" /\ s[17] = ":"
    /\ s[20] = "." /\ s[27] = "Z"
    /\ AllDigits(Slice(s, 21, 26))
    /\ RefNumber(s, 1, 4) >= 0 /\ RefNumber(s, 6, 7) >= 0 /\ RefNumber(s, 9, 10) >= 0
    /\ RefNumber(s, 12, 13) >= 0 /\ RefNumber(s, 15, 16) >= 0 /\ RefNumber(s, 18, 19) >= 0
    /\ RefInRange(RefNumber(s, 1, 4), RefNumber(s, 6, 7), RefNumber(s, 9, 10),
                  RefNumber(s, 12, 13), RefNumber(s, 15, 16), RefNumber(s, 18, 19))

\* a string of one of the four formats with components in range
RefIsUtcCompact(s) ==
    \/ Len(s) = 8 /\ RefIsCompactDate(s)
    \/ Len(s) = 15 /\ RefIsCompactStamp(s)
    \/ Len(s) = 16 /\ RefIsCompactStamp(s) /\ s[16] = "Z"
    \/ RefIsFractionalStamp(s)

ParsedUtc == op = "datetupelutctimestamp"

\* C13: datetupelutctimestamp raises TimestampParseException, and returns no
\* value, for every string whose length is none of 8, 15, 16 and 27 ("foobar")
\* and for every string of one of these lengths that is not of its format or
\* has a component out of range ("20111219x205510Z", "20111319").
C13_UtcErrors ==
    ParsedUtc
        => /\ Len(args.datetime_string) \notin {8, 15, 16, 27}
                => result.kind = "TimestampParseException"
           /\ ~RefIsUtcCompact(args.datetime_string)
                => result.kind = "TimestampParseException"
           /\ args.datetime_string
                \in {Test_foobar, Test_utc_wrong_separator, Test_utc_month_13}
                => result.kind = "TimestampParseException"

Test_utc_205510Z ==
    <<"2","0","1","1","1","2","1","9","T","2","0","5","5","1","0","Z">>

Test_utc_205510 ==
    <<"2","0","1","1","1","2","1","9","T","2","0","5","5","1","0">>

Test_utc_20111219 == <<"2","0","1","1","1","2","1","9">>

\* year, month, day, hour, minute, second of a string of one of the four
\* formats, read by position
RefUtcFields(s) ==
    IF Len(s) = 27
    THEN [year |-> RefNumber(s, 1, 4), month |-> RefNumber(s, 6, 7),
          day |-> RefNumber(s, 9, 10), hour |-> RefNumber(s, 12, 13),
          minute |-> RefNumber(s, 15, 16), second |-> RefNumber(s, 18, 19)]
    ELSE [year |-> RefNumber(s, 1, 4), month |-> RefNumber(s, 5, 6),
          day |-> RefNumber(s, 7, 8),
          hour |-> IF Len(s) = 8 THEN 0 ELSE RefNumber(s, 10, 11),
          minute |-> IF Len(s) = 8 THEN 0 ELSE RefNumber(s, 12, 13),
          second |-> IF Len(s) = 8 THEN 0 ELSE RefNumber(s, 14, 15)]

RefSecondOfDay(f) == f.hour * 3600 + f.minute * 60 + f.second

\* whether the wall clock `local` is the wall clock `utc` moved by offset
\* seconds
RefIsOffset(utc, local, offset) ==
    /\ RefDays(local.year, local.month, local.day)
         = RefDays(utc.year, utc.month, utc.day)
             + ((RefSecondOfDay(utc) + offset) \div 86400)
    /\ RefSecondOfDay(local) = (RefSecondOfDay(utc) + offset) % 86400
    /\ local.hour \in 0..23 /\ local.minute \in 0..59 /\ local.second \in 0..59

\* C14: datetupelutctimestamp chooses the format by the length of the string
\* alone.  A string of 16 characters (YYYYMMDDTHHMMSSZ) and one of 27
\* (YYYY-MM-DDTHH:MM:SS.ffffffZ, the fraction dropped) are read as UTC and
\* returned as the wall clock of the ambient zone, its offset added; a string
\* of 15 (YYYYMMDDTHHMMSS) and one of 8 (YYYYMMDD, midnight) are returned as
\* written, the same under every zone.
C14_UtcCompact ==
    (ParsedUtc /\ RefIsUtcCompact(args.datetime_string))
        => /\ result.kind = "ok"
           /\ Len(args.datetime_string) \in {16, 27}
                => RefIsOffset(RefUtcFields(args.datetime_string),
                               RefFields(result.value), args.tz.utcoff)
           /\ Len(args.datetime_string) \in {15, 8}
                => /\ RefFields(result.value) = RefUtcFields(args.datetime_string)
                   /\ \A z \in Zones :
                        datetupelutctimestamp(args.datetime_string, z, args.optimize)
                            = result
           /\ (args.datetime_string = Test_utc_205510Z /\ args.tz.utcoff = 3600)
                => IsAt(result.value, 2011, 12, 19, 21, 55, 10)
           /\ args.datetime_string = Test_utc_205510
                => IsAt(result.value, 2011, 12, 19, 20, 55, 10)
           /\ args.datetime_string = Test_utc_20111219
                => IsAt(result.value, 2011, 12, 19, 0, 0, 0)

\* 23:30 UTC on the last day of 2019 is 00:30 on the first day of 2020 one
\* hour east
C14_Witness ==
    /\ ParsedUtc
    /\ Len(args.datetime_string) = 16
    /\ RefUtcFields(args.datetime_string)
         = [year |-> 2019, month |-> 12, day |-> 31, hour |-> 23, minute |-> 30,
            second |-> 0]
    /\ args.tz.utcoff = 3600
    /\ result.kind = "ok"
    /\ IsAt(result.value, 2020, 1, 1, 0, 30, 0)

\* a time-stamp with its weekday token replaced by the English weekday of its
\* date
RefEnglish(s) ==
    LET d == FirstOf(s, {"-"})
        f == ReadStamp(s)
    IN  Slice(s, 1, d + 6) \o RefWeekdayName(f.year, f.month, f.day)
            \o Slice(s, Len(s) - 6, Len(s))

\* C15: a value of a date of the calendar rendered in any of the four forms
\* (active or inactive, with or without the time) is parsed back by
\* orgmode_timestamp_to_datetime, and what is parsed renders as the same
\* string under the same options; and every string the parser accepts is
\* rendered back from its parsed value as itself, with the weekday token
\* replaced by the English weekday of its date.
C15_RoundTrip ==
    /\ (op = "date" /\ result.kind = "ok")
        => LET parsed == orgmode_timestamp_to_datetime(result.value)
           IN  /\ parsed.kind = "ok"
               /\ date(parsed.value, args.show_time, args.inactive) = result
    /\ (Parsed /\ result.kind = "ok")
        => \E inactive \in BOOLEAN :
             date(result.value, TRUE, inactive) = Ok(RefEnglish(args.orgtime))

\* the decimal numbers in s, in their order: every maximal run of digits
RECURSIVE RefDigitRuns(_)
RefDigitRuns(s) ==
    IF s = <<>> THEN <<>>
    ELSE IF ~IsDigit(s[1]) THEN RefDigitRuns(Tail(s))
    ELSE LET n == IF \E i \in 1..Len(s) : ~IsDigit(s[i])
                  THEN FirstOf(s, {s[i] : i \in {j \in 1..Len(s) : ~IsDigit(s[j])}}) - 1
                  ELSE Len(s)
         IN  <<IntOf(SubSeq(s, 1, n))>> \o RefDigitRuns(SubSeq(s, n + 1, Len(s)))

\* the characters of s that are no digits
RefSeparators(s) == SelectSeq(s, LAMBDA c : ~IsDigit(c))

\* the components of an ISO spelling; what is not written is 0
RefIsoFields(s) ==
    LET runs == RefDigitRuns(s)
        at(k) == IF k <= Len(runs) THEN runs[k] ELSE 0
    IN  [year |-> at(1), month |-> at(2), day |-> at(3),
         hour |-> at(4), minute |-> at(5), second |-> at(6)]

\* a spelling of a date, or of a date and a time, of the calendar and the
\* clock: "-" in the date, T or a space before the time, "." or ":" in it
RefIsIsoSpelling(s) ==
    LET seps == RefSeparators(s)
        f    == RefIsoFields(s)
    IN  /\ Len(RefDigitRuns(s)) = Len(seps) + 1
        /\ s # <<>> /\ IsDigit(s[1]) /\ IsDigit(s[Len(s)])
        /\ Len(seps) \in {2, 4, 5}
        /\ seps[1] = "-" /\ seps[2] = "-"
        /\ Len(seps) >= 4 => seps[3] \in {"T", " "} /\ seps[4] \in {".", ":"}
        /\ Len(seps) = 5 => seps[5] \in {".", ":"}
        /\ RefInRange(f.year, f.month, f.day, f.hour, f.minute, f.second)
        /\ f.second <= 59

ParsedIso == op = "datetimetupeliso8601"

Test_iso_unpadded == <<"2","0","1","1","-","1","-","2","T","3",".","4",".","5">>

Test_iso_date_only == <<"2","0","1","1","-","1","-","2">>

\* C16: datetimetupeliso8601 returns the same calendar value for every
\* spelling of the same components, without raising: with or without zero
\* padding, with T or a space before the time, with "." or ":" between the
\* fields of the time, with or without seconds, and for a date alone, whose
\* time is 00:00:00.
C16_IsoSpellings ==
    (ParsedIso /\ RefIsIsoSpelling(args.datetime_string))
        => /\ result.kind = "ok"
           /\ IsStructTime(result.value)
           /\ RefFields(result.value) = RefIsoFields(args.datetime_string)
           /\ args.datetime_string = Test_iso_unpadded
                => IsAt(result.value, 2011, 1, 2, 3, 4, 5)
           /\ args.datetime_string = Test_iso_date_only
                => IsAt(result.value, 2011, 1, 2, 0, 0, 0)

\* the number of the weekday of a date, Monday 0
RefWeekdayNumber(year, month, day) ==
    ((CHOOSE k \in 1..7 : EnglishWeekdays[k] = RefWeekdayName(year, month, day)) + 5) % 7

\* C17: fix_struct_time_wday changes the weekday alone: tm_wday of the result
\* is the weekday of (tm_year, tm_mon, tm_mday) and every other field, tm_yday
\* and tm_isdst included, is that of the tuple handed in.
C17_OnlyWeekday ==
    op = "fix_struct_time_wday"
        => /\ result.kind = "ok"
           /\ result.value.tm_wday
                = RefWeekdayNumber(args.tuple_date.tm_year, args.tuple_date.tm_mon,
                                   args.tuple_date.tm_mday)
           /\ result.value = [args.tuple_date EXCEPT !.tm_wday = result.value.tm_wday]

\* a time-stamp of the grammar in angle brackets, of a date of the calendar,
\* with the English token of its weekday
RefIsCorrectActive(s) ==
    /\ IsActiveStamp(s)
    /\ ORGMODE_TIMESTAMP_REGEX(s)
    /\ IsCalendarDate(ReadStamp(s))
    /\ ReadStamp(s).token
         = RefWeekdayName(ReadStamp(s).year, ReadStamp(s).month, ReadStamp(s).day)

\* such a time-stamp, or a range of two of them
RefIsCorrectActiveText(s) ==
    \/ RefIsCorrectActive(s)
    \/ /\ ORGMODE_TIMESTAMP_RANGE_REGEX(s)
       /\ s = RefBegin(s) \o RefDashes(s) \o RefEnd(s)
       /\ RefIsCorrectActive(RefBegin(s)) /\ RefIsCorrectActive(RefEnd(s))

\* a range with two dashes between its time-stamps, a time-stamp as it is
RefDoubleDash(s) ==
    IF ORGMODE_TIMESTAMP_RANGE_REGEX(s)
    THEN RefBegin(s) \o <<"-", "-">> \o RefEnd(s)
    ELSE s

RefNegated(d) == <<0 - d[1], d[2]>>

\* the second call of a chain, with the negation of the delta of the first
IsUndo == Applied /\ Len(Before(args)) = 1 /\ args.deltahours = RefNegated(Before(args)[1])

\* whether every time-stamp in s has a year of the grammar, 1000..2999
RefYearsInGrammar(s) ==
    IF Contains(s, <<">", "-">>)
    THEN /\ ReadStamp(RefBegin(s)).year \in 1000..2999
         /\ ReadStamp(RefEnd(s)).year \in 1000..2999
    ELSE ReadStamp(s).year \in 1000..2999

\* C18 as stated: for every active time-stamp or range s of the grammar with
\* the right English weekday tokens and every delta d, whole or fractional,
\* the delta applied and then its negation give s back, a single dash made
\* two.
C18_UndoRestores ==
    (IsUndo /\ RefIsCorrectActiveText(Start(args)))
        => result = Ok(RefDoubleDash(Start(args)))

\* C18, amended: the same for every delta that is a whole number of minutes
\* and leaves the shifted time-stamps within the years 1000..2999; a line break
\* after s is dropped.
C18_UndoWholeMinutes ==
    (IsUndo /\ RefIsCorrectActiveText(Chomp(Start(args)))
        /\ RefDeltaSeconds(args.deltahours) % 60 = 0
        /\ RefYearsInGrammar(args.orgtime))
        => result = Ok(RefDoubleDash(Chomp(Start(args))))

\* a range with one dash moved over the end of the year and back comes back
\* with two dashes
C18_Witness ==
    /\ IsUndo
    /\ Start(args) = Doc_Range_2019_dash
    /\ args.deltahours = <<-5, 2>>
    /\ args.orgtime = Doc_Range_2020
    /\ result = Ok(Doc_Range_2019)

\* a time-stamp of the grammar from its opening to its closing bracket
RefIsWholeStamp(w) ==
    /\ w # <<>> /\ w[1] \in {"<", "["} /\ w[Len(w)] \in {">", "]"}
    /\ ORGMODE_TIMESTAMP_REGEX(w)

\* a range of the grammar from its first opening to its last closing bracket
RefIsWholeRange(w) ==
    /\ w # <<>> /\ w[1] \in {"<", "["} /\ w[Len(w)] \in {">", "]"}
    /\ ORGMODE_TIMESTAMP_RANGE_REGEX(w)

\* s is one or more characters followed by a whole time-stamp (or range)
RefHasLeading(s, ranges) ==
    \E i \in 1..(Len(s) - 1) :
        \/ RefIsWholeStamp(Slice(s, i + 1, Len(s)))
        \/ ranges /\ RefIsWholeRange(Slice(s, i + 1, Len(s)))

\* s is a whole time-stamp (or range) followed by one or more characters
RefHasTrailing(s) ==
    \E i \in 1..(Len(s) - 1) :
        RefIsWholeStamp(Slice(s, 1, i)) \/ RefIsWholeRange(Slice(s, 1, i))

\* "x<2019-11-05 Tue 23:59>" and "<2019-11-05 Tue 23:59>\n"
RefLeadingX == <<"x">> \o Doc_2019_11_05_2359

RefTrailingLineBreak == Doc_2019_11_05_2359 \o <<"\n">>

\* C19: the two patterns are anchored at the end of the string alone: a string
\* of any characters followed by a time-stamp of the grammar (or, for
\* apply_timedelta_to_Orgmode_timestamp, a range) is accepted by
\* orgmode_timestamp_to_datetime and apply_timedelta_to_Orgmode_timestamp, and
\* a string with one or more characters after the last closing bracket, a line
\* break included, is refused with TimestampParseException.
C19_AnchoredAtEndOnly ==
    /\ (Parsed /\ RefHasLeading(args.orgtime, FALSE)
            /\ ~RefHasTrailing(args.orgtime))
        => result.kind = "ok"
    /\ (Applied /\ RefHasLeading(args.orgtime, TRUE)
            /\ ~RefHasTrailing(args.orgtime))
        => result.kind = "ok"
    /\ ((Parsed \/ Applied) /\ RefHasTrailing(args.orgtime)
            /\ ~RefIsWholeRange(args.orgtime))
        => result.kind = "TimestampParseException"
    /\ ((Parsed \/ Applied) /\ args.orgtime = RefLeadingX) => result.kind = "ok"
    /\ ((Parsed \/ Applied) /\ args.orgtime = RefTrailingLineBreak)
        => result.kind = "TimestampParseException"

\* whether the token of a time-stamp is the English weekday of its date
RefTokenIsRight(s) ==
    LET f == ReadStamp(s)
    IN  IsCalendarDate(f) /\ f.token = RefWeekdayName(f.year, f.month, f.day)

\* the minutes from the begin of a range to its end
RefRangeMinutes(s) ==
    RefMinutes(ReadStamp(RefEnd(s))) - RefMinutes(ReadStamp(RefBegin(s)))

\* C20: from any time-stamp or range of the grammar (active or inactive, an
\* English or a German token, right or wrong), after any number of
\* apply_timedelta_to_Orgmode_timestamp steps that leave the years within
\* 1000..2999, every step succeeds and its result is again a string of the
\* grammar, every weekday token in it is the weekday of its own date, and a
\* range is as many minutes long as the range the chain started from.
C20_Closure ==
    (Applied
        /\ (ORGMODE_TIMESTAMP_REGEX(args.orgtime)
                \/ ORGMODE_TIMESTAMP_RANGE_REGEX(args.orgtime))
        /\ (result.kind = "ok" => RefYearsInGrammar(result.value)))
        => /\ result.kind = "ok"
           /\ IF ORGMODE_TIMESTAMP_RANGE_REGEX(args.orgtime)
              THEN /\ ORGMODE_TIMESTAMP_RANGE_REGEX(result.value)
                   /\ RefTokenIsRight(RefBegin(result.value))
                   /\ RefTokenIsRight(RefEnd(result.value))
                   /\ RefRangeMinutes(result.value) = RefRangeMinutes(Start(args))
              ELSE /\ ORGMODE_TIMESTAMP_REGEX(result.value)
                   /\ RefTokenIsRight(result.value)

====
